---- MODULE Spec2Model ----
(***************************************************************************)
(* The producer / daemon pipeline of wandb client-ng:                      *)
(*   BackendSender (wandb/interface/interface.py)  - the producing side    *)
(*   wandb_internal, wandb_send, wandb_write (wandb/internal/internal.py)  *)
(*   SendManager (wandb/internal/sender.py)        - the state machine     *)
(* Queues are sequences, each thread is one or more actions, and every     *)
(* handler of SendManager is one action that performs the whole handler.   *)
(***************************************************************************)
EXTENDS Integers, Sequences, FiniteSets, TLC

VARIABLES
    notify_queue,     \* tags PROCESS / REQUEST / SHUTDOWN
    process_queue,    \* fire-and-forget records
    req_queue,        \* records of synchronous calls
    resp_queue,       \* Results for the caller
    send_queue,       \* router -> wandb_send
    write_queue,      \* router -> wandb_write
    stopped,          \* threading.Event of wandb_internal
    router_done,      \* `done` of the router loop
    send_thread,      \* None (offline) | "running" | "crashed" | "finishing" | "finished"
    write_thread,     \* "running" | "finished"
    ds,               \* the durability log (DataStore), in write order
    sh,               \* the SendManager instance of wandb_send
    settings,         \* the daemon's settings
    remote_runs,      \* the run ids the remote service knows
    resume_status,    \* what the remote service reports of the prior run
    caller,           \* the thread that makes the synchronous calls
    outcome,          \* how the caller's last synchronous call ended
    n_async,          \* fire-and-forget records sent so far
    shutdown_sent,    \* NOTIFY_SHUTDOWN was put on the notify queue
    teardown,         \* teardown actions of the defer sequence, in order
    resp_put,         \* every Result ever put on the response queue
    handled,          \* every record a SendManager handler ran to its end
    end_count,        \* executions of the terminal branch of the defer handler
    parent_exists,    \* psutil.pid_exists(parent_pid)
    check_process_age, \* time since _check_process_last, up to the interval
    exited,           \* os._exit was called
    call,             \* a call of a builder of BackendSender: arguments, result
    read_thread,      \* None (offline) | "running" | "finished"
    putting           \* per producer: the put in progress and the puts so far

vars == << notify_queue, process_queue, req_queue, resp_queue, send_queue,
           write_queue, stopped, router_done, send_thread, write_thread, ds,
           sh, settings, call, read_thread, putting, remote_runs, resume_status, caller, outcome, n_async,
           shutdown_sent, teardown, resp_put, handled, end_count,
           parent_exists, check_process_age, exited >>

-----------------------------------------------------------------------------
(* Bounds of the model *)

MaxSync == 2          \* synchronous calls the caller makes
MaxAsync == 1         \* fire-and-forget records the producer sends
MaxSyncAll == 1       \* synchronous calls in the runs with a shutdown
MaxHistory == 2       \* fire-and-forget records in the runs with History records
MaxTBPoints == 2      \* points the metrics watcher buffers
MaxEntries == 3       \* entries of an artifact manifest
MaxPoll == 3          \* synchronous calls in the runs that poll for the exit
MaxOutput == 3        \* chunks of output written in the runs with output
MaxSummary == 2       \* fire-and-forget records in the runs with Summary records
MaxRunUpdates == 2    \* fire-and-forget records in the runs with Run updates
MaxPuts == 2          \* records each producer puts, statement by statement

(* Program constants *)

DefaultTimeout == 5   \* _request_response(self, rec, timeout=5)

NOTIFY_PROCESS == "PROCESS"
NOTIFY_REQUEST == "REQUEST"
NOTIFY_SHUTDOWN == "SHUTDOWN"

None == "None"        \* Python's None for object and string valued fields
NoneInt == -1         \* Python's None for integer valued fields

DeferState ==
    [begin |-> 0, flush_tb |-> 1, flush_dir |-> 2, flush_fp |-> 3,
     flush_fs |-> 4, end |-> 5]

DeferStates ==
    {DeferState.begin, DeferState.flush_tb, DeferState.flush_dir,
     DeferState.flush_fp, DeferState.flush_fs, DeferState.end}

-----------------------------------------------------------------------------
(* Records and Results *)

\* wandb_internal_pb2.Record: the payload variant, the nested request variant,
\* control.req_resp, control.local, uuid, the exit code of an Exit payload and
\* the run id of a Run payload; `items` are the key/value items of a History
\* payload and the update items of a Summary payload, `remove` the keys a
\* Summary payload removes, `stream` and `line` the output type and the text
\* of an Output payload (a text is the sequence of its pieces).
Record(record_type, request_type, req_resp, local, uuid, exit_code) ==
    [record_type |-> record_type, request_type |-> request_type,
     req_resp |-> req_resp, local |-> local, uuid |-> uuid,
     exit_code |-> exit_code, run_id |-> "",
     items |-> << >>, remove |-> << >>, stream |-> "", line |-> << >>]

\* wandb_internal_pb2.Result: uuid, the field of the answer that is set, the
\* error of a run_result and the done flag of a poll_exit_response.
Result(uuid, kind) == [uuid |-> uuid, kind |-> kind, error |-> None, done |-> FALSE]

\* The value _request_response returns when the queue stays empty.
NoResponse == Result("", None)

\* A protobuf string is false when empty; None is false.
Truthy(s) == s # "" /\ s # None

-----------------------------------------------------------------------------
(* SendManager (sender.py) *)

\* SendManager.__init__: nothing is started, no run, no defer state.
\* _offsets of a new SendManager.
NoOffsets == [step |-> 0, history |-> 0, events |-> 0, output |-> 0, runtime |-> 0]

\* The start_chunk_id of the file policies: none before the file stream exists.
NoPolicies == [history |-> NoneInt, events |-> NoneInt, output |-> NoneInt]

\* The keys and values of summary and history items, and the mark of a key
\* that a dict does not hold.
SummaryKeys == {"a", "b"}
SummaryValues == {1, 2}
Absent == 0

\* _consolidated_summary of a new SendManager: dict().
NoSummary == [k \in SummaryKeys |-> Absent]

\* _partial_output of a new SendManager: no text buffered for any stream.
NoOutput == [stdout |-> << >>, stderr |-> << >>]

\* starts counts the times the file stream, the pusher and the watchers were
\* started; fs_summary is the document last pushed to the summary file (none
\* or one), summary_file the document in the local summary file (none or
\* one), fs_output the pushes to the output file.
\* fs_policy and fs_history are the file stream's: the start_chunk_id of its
\* policies and the chunk ids of the lines pushed to the history file.
\* upserts counts the calls of api.upsert_run. tb_points counts the points the
\* metrics watcher has buffered, config_file is the content of the local
\* config file (none or one).
SendManagerInit ==
    [fs |-> FALSE, pusher |-> None, dir_watcher |-> FALSE, tb_watcher |-> FALSE,
     run |-> None, defer_state |-> NoneInt, exit_code |-> 0,
     exit_sync_uuid |-> None, exit_result |-> FALSE,
     offsets |-> NoOffsets, starting_step |-> NoneInt, upserts |-> 0,
     fs_policy |-> NoPolicies, fs_history |-> << >>,
     starts |-> 0, summary |-> NoSummary, fs_summary |-> << >>,
     summary_file |-> << >>,
     partial_output |-> NoOutput, fs_output |-> << >>,
     tb_points |-> 0, config_file |-> << >>]

\* self._resp_q.put(result), for each Result of `results`, in order.
RespPut(results) ==
    /\ resp_queue' = resp_queue \o results
    /\ resp_put' = resp_put \o results

\* BackendSender.send_defer: a defer request, marked local, through
\* _queue_process: on the process queue, then a PROCESS tag.
DeferRecord == Record("request", "defer", FALSE, TRUE, "", 0)

send_defer ==
    /\ process_queue' = Append(process_queue, DeferRecord)
    /\ notify_queue' = Append(notify_queue, NOTIFY_PROCESS)

\* The History record the metrics watcher makes of a buffered point.
TBHistory ==
    [Record("history", "", FALSE, FALSE, "", 0) EXCEPT !.items = << <<"b", 1>> >>]

\* The records the teardown action of a defer phase puts on the process
\* queue: TBWatcher.finish sends its buffered points as History records.
TeardownRecords(state) ==
    IF state = DeferState.flush_tb /\ sh.tb_watcher
        THEN [i \in 1..sh.tb_points |-> TBHistory]
        ELSE << >>

\* A defer handler that sends the next defer request before its teardown
\* action runs.
send_defer_before(records) ==
    /\ process_queue' = process_queue \o << DeferRecord >> \o records
    /\ notify_queue' =
          notify_queue \o [i \in 1..(Len(records) + 1) |-> NOTIFY_PROCESS]

\* The teardown action, whose records go through _queue_process, and then
\* send_defer.
send_defer_after(records) ==
    /\ process_queue' = process_queue \o records \o << DeferRecord >>
    /\ notify_queue' =
          notify_queue \o [i \in 1..(Len(records) + 1) |-> NOTIFY_PROCESS]

\* A defer handler that advances by two states.
NextDeferState_skips(state) == state + 2

\* self._defer_state += 1
NextDeferState(state) == state + 1

\* handle_exit: keeps the exit code and, when a response is wanted, the uuid;
\* sets the defer state to begin and sends the first defer request.
handle_exit(data) ==
    /\ sh' = [sh EXCEPT !.exit_code = data.exit_code,
                        !.exit_sync_uuid =
                            IF data.req_resp THEN data.uuid ELSE @,
                        !.defer_state = DeferState.begin]
    /\ send_defer
    /\ UNCHANGED << resp_queue, resp_put, teardown, end_count, remote_runs,
                    send_thread >>

\* The teardown action of one defer phase: what it calls, and the components
\* it releases.
DeferEvents(state) ==
    IF state = DeferState.flush_tb /\ sh.tb_watcher
        THEN << <<"tb_watcher.finish", 0>> >>
    ELSE IF state = DeferState.flush_dir /\ sh.dir_watcher
        THEN << <<"dir_watcher.finish", 0>> >>
    ELSE IF state = DeferState.flush_fp /\ sh.pusher # None
        THEN << <<"pusher.finish", 0>> >>
    ELSE IF state = DeferState.flush_fs /\ sh.fs
        THEN << <<"fs.finish", sh.exit_code>> >>
    ELSE << >>

\* FilePusher.finish: the signal to drain; a pusher that already drained stays so.
pusher_finish(p) == IF p = "running" THEN "finishing" ELSE p

\* A defer handler whose flush_fs phase leaves the file stream running.
DeferTeardown_keeps_fs(state) ==
    IF state = DeferState.flush_tb THEN [sh EXCEPT !.tb_watcher = FALSE]
    ELSE IF state = DeferState.flush_dir THEN [sh EXCEPT !.dir_watcher = FALSE]
    ELSE IF state = DeferState.flush_fp /\ sh.pusher # None
        THEN [sh EXCEPT !.pusher = pusher_finish(@)]
    ELSE sh

DeferTeardown(state) ==
    IF state = DeferState.flush_tb
        THEN [sh EXCEPT !.tb_watcher = FALSE, !.tb_points = 0]
    ELSE IF state = DeferState.flush_dir THEN [sh EXCEPT !.dir_watcher = FALSE]
    ELSE IF state = DeferState.flush_fp /\ sh.pusher # None
        THEN [sh EXCEPT !.pusher = pusher_finish(@)]
    ELSE IF state = DeferState.flush_fs THEN [sh EXCEPT !.fs = FALSE]
    ELSE sh

\* The Results the terminal branch puts: one when the exit wanted a response.
ExitResponse(uuid) ==
    IF Truthy(uuid) THEN << Result(uuid, "exit_result") >> ELSE << >>

\* FilePusher.join returns once the pusher has drained.
pusher_joinable(p) == p = "done"

\* handle_request_defer: before `end`, the teardown action of the current
\* state, the state advanced by one and a new defer request; at `end`, the exit
\* result (after the pusher's join when the exit wanted a response); with no
\* defer state, AssertionError.
handle_request_defer(data) ==
    LET state == sh.defer_state IN
    IF state \notin DeferStates THEN
        /\ send_thread' = "crashed"
        /\ UNCHANGED << sh, resp_queue, resp_put, process_queue, notify_queue,
                        teardown, end_count, remote_runs >>
    ELSE IF state # DeferState.end THEN
        /\ sh' = [DeferTeardown(state) EXCEPT
                      !.defer_state = NextDeferState(state)]
        /\ teardown' = teardown \o DeferEvents(state)
        /\ send_defer_after(TeardownRecords(state))
        /\ UNCHANGED << resp_queue, resp_put, end_count, remote_runs,
                        send_thread >>
    ELSE
        /\ Truthy(sh.exit_sync_uuid) /\ sh.pusher # None
              => pusher_joinable(sh.pusher)
        /\ sh' = [sh EXCEPT !.pusher =
                                IF Truthy(sh.exit_sync_uuid) THEN None ELSE @,
                            !.exit_result = TRUE]
        /\ teardown' = teardown \o
              (IF Truthy(sh.exit_sync_uuid) /\ sh.pusher # None
                  THEN << <<"pusher.join", 0>> >> ELSE << >>)
              \o << <<"exit_result", 0>> >>
        /\ RespPut(ExitResponse(sh.exit_sync_uuid))
        /\ end_count' = end_count + 1
        /\ UNCHANGED << process_queue, notify_queue, remote_runs,
                        send_thread >>

\* handle_request_poll_exit: no answer unless a response is wanted; done only
\* with an exit result and a pusher that is not alive, and then the pusher is
\* joined: AttributeError when the pusher was released.
pusher_alive(p) == p \in {"running", "finishing"}

handle_request_poll_exit(data) ==
    LET alive == IF sh.pusher # None THEN pusher_alive(sh.pusher) ELSE FALSE
        done == sh.exit_result /\ ~alive
    IN
    IF ~data.req_resp THEN
        UNCHANGED << sh, resp_queue, resp_put, process_queue, notify_queue,
                     teardown, end_count, remote_runs, send_thread >>
    ELSE IF done /\ sh.pusher = None THEN
        /\ send_thread' = "crashed"
        /\ UNCHANGED << sh, resp_queue, resp_put, process_queue, notify_queue,
                        teardown, end_count, remote_runs >>
    ELSE
        /\ RespPut(<< [Result(data.uuid, "poll_exit_response")
                          EXCEPT !.done = done] >>)
        /\ UNCHANGED << sh, process_queue, notify_queue, teardown, end_count,
                        remote_runs, send_thread >>

\* handle_request_status: a status_response when a response is wanted.
handle_request_status(data) ==
    /\ RespPut(IF data.req_resp
                  THEN << Result(data.uuid, "status_response") >> ELSE << >>)
    /\ UNCHANGED << sh, process_queue, notify_queue, teardown, end_count,
                    remote_runs, send_thread >>

\* handle_request_login: a login_response when a response is wanted.
handle_request_login(data) ==
    /\ RespPut(IF data.req_resp
                  THEN << Result(data.uuid, "login_response") >> ELSE << >>)
    /\ UNCHANGED << sh, process_queue, notify_queue, teardown, end_count,
                    remote_runs, send_thread >>

\* handle_request_get_summary: always a get_summary_response.
handle_request_get_summary(data) ==
    /\ RespPut(<< Result(data.uuid, "get_summary_response") >>)
    /\ UNCHANGED << sh, process_queue, notify_queue, teardown, end_count,
                    remote_runs, send_thread >>

\* api.run_resume_status: None for a run the remote service does not know.
NoStatus ==
    [exists |-> FALSE, historyLineCount |-> 0, eventsLineCount |-> 0,
     logLineCount |-> 0, historyTail |-> << >>, eventsTail |-> << >>]

run_resume_status(run_id) ==
    IF run_id \in remote_runs THEN resume_status ELSE NoStatus

\* The row of a parsed tail that .get reads with its defaults: {} gives
\* _step -1 and _runtime 0.
NoRow == [step |-> -1, runtime |-> 0]

Last(seq) == seq[Len(seq)]

Max(a, b) == IF a >= b THEN a ELSE b

\* The offsets _maybe_setup_resume computes for resume in (allow, auto) of a
\* prior run: both tails are parsed in one try, so an empty history tail
\* (IndexError) leaves the events row empty too.
ResumeOffsets(status) ==
    LET history == IF status.historyTail = << >>
                      THEN NoRow ELSE Last(status.historyTail)
        events == IF status.historyTail = << >> \/ status.eventsTail = << >>
                     THEN NoRow ELSE Last(status.eventsTail)
    IN [runtime |-> Max(events.runtime, history.runtime),
        step |-> history.step + 1,
        history |-> status.historyLineCount,
        events |-> status.eventsLineCount,
        output |-> status.logLineCount]

\* self._offsets after _maybe_setup_resume.
setup_resume_offsets(run_id) ==
    IF /\ Truthy(settings.resume)
       /\ run_resume_status(run_id).exists
       /\ settings.resume \in {"allow", "auto"}
        THEN ResumeOffsets(run_resume_status(run_id))
        ELSE sh.offsets

\* A resume check that never fails.
maybe_setup_resume_never_fails(run_id) == None

\* _maybe_setup_resume: the error of a resume conflict, or None.
maybe_setup_resume(run_id) ==
    IF ~Truthy(settings.resume) THEN None
    ELSE IF ~run_resume_status(run_id).exists
        THEN (IF settings.resume = "must" THEN "INVALID" ELSE None)
    ELSE IF settings.resume = "never" THEN "INVALID" ELSE None

\* A handle_run that takes every Run record for the first one while no file
\* stream runs.
is_wandb_init_without_fs == ~sh.fs

\* is_wandb_init = self._run is None
is_wandb_init == sh.run = None

\* File policies that all start at chunk 0.
FilePolicies_from_zero(offsets) == [history |-> 0, events |-> 0, output |-> 0]

\* The start_chunk_id handle_run gives the policies of wandb-history.jsonl,
\* wandb-events.jsonl and output.log.
FilePolicies(offsets) ==
    [history |-> offsets.history, events |-> offsets.events,
     output |-> offsets.output]

\* The head of handle_run: the config of a Run record that has one is written
\* to the local config file, before anything is checked.
save_config(s, data) ==
    IF data.items # << >> THEN [s EXCEPT !.config_file = << data.items >>]
    ELSE s

\* handle_run: on the first Run record the resume check; an error is answered
\* and ends the handler; else the run is upserted, kept and answered, and the
\* first Run record starts the file stream, the pusher and the watchers.
handle_run(data) ==
    LET error == IF is_wandb_init THEN maybe_setup_resume(data.run_id) ELSE None
    IN
    IF error # None THEN
        /\ sh' = save_config(sh, data)
        /\ RespPut(IF data.req_resp
                      THEN << [Result(data.uuid, "run_result")
                                  EXCEPT !.error = error] >>
                      ELSE << >>)
        /\ UNCHANGED << process_queue, notify_queue, teardown, end_count,
                        remote_runs, send_thread >>
    ELSE
        /\ remote_runs' = remote_runs \cup {data.run_id}
        /\ sh' = LET offsets == IF is_wandb_init
                                   THEN setup_resume_offsets(data.run_id)
                                   ELSE sh.offsets
                     run == [save_config(sh, data)
                                EXCEPT !.offsets = offsets,
                                       !.upserts = @ + 1,
                                       !.run = data.run_id,
                                       !.starting_step = offsets.step]
                 IN IF is_wandb_init
                       THEN [run EXCEPT !.fs = TRUE,
                                        !.starts = @ + 1,
                                        !.fs_policy = FilePolicies(offsets),
                                        !.pusher = "running",
                                        !.dir_watcher = TRUE,
                                        !.tb_watcher = TRUE]
                       ELSE run
        /\ RespPut(IF data.req_resp
                      THEN << Result(data.uuid, "run_result") >> ELSE << >>)
        /\ UNCHANGED << process_queue, notify_queue, teardown, end_count,
                        send_thread >>

\* FileStreamApi.push under a JsonlFilePolicy: one more line, numbered from
\* the policy's start_chunk_id.
fs_push(lines, start_chunk_id) == Append(lines, start_chunk_id + Len(lines))

\* A dict.update that keeps the value a key already has.
RECURSIVE UpdateDict_first_wins(_, _)
UpdateDict_first_wins(d, items) ==
    IF items = << >> THEN d
    ELSE UpdateDict_first_wins(
             IF d[Head(items)[1]] = Absent
                THEN [d EXCEPT ![Head(items)[1]] = Head(items)[2]] ELSE d,
             Tail(items))

\* d[key] = value for each item in turn: dict_from_proto_list and dict.update
\* on a history dict, and the update loop of handle_summary.
RECURSIVE UpdateDict(_, _)
UpdateDict(d, items) ==
    IF items = << >> THEN d
    ELSE UpdateDict([d EXCEPT ![Head(items)[1]] = Head(items)[2]], Tail(items))

\* del d[key] for each key in turn: KeyError at the first key d does not
\* hold, with the keys before it removed.
RECURSIVE RemoveKeys(_, _)
RemoveKeys(d, keys) ==
    IF keys = << >> THEN [dict |-> d, raised |-> FALSE]
    ELSE IF d[Head(keys)] = Absent THEN [dict |-> d, raised |-> TRUE]
    ELSE RemoveKeys([d EXCEPT ![Head(keys)] = Absent], Tail(keys))

\* A handle_summary that removes before it updates.
ApplySummary_removes_first(d, data) ==
    [dict |-> UpdateDict(RemoveKeys(d, data.remove).dict, data.items),
     raised |-> RemoveKeys(d, data.remove).raised]

\* The two loops of handle_summary: every update, then every remove.
ApplySummary(d, data) == RemoveKeys(UpdateDict(d, data.items), data.remove)

\* A _save_history that saves the history row as the summary.
HistorySummary_row_only(consolidated, items) == UpdateDict(NoSummary, items)

\* What _save_history hands to _save_summary: the consolidated summary.
HistorySummary(consolidated, items) == consolidated

\* _save_summary up to _save_file: the whole document is pushed to the
\* summary file when the file stream exists, and written to the local file.
save_summary(s, summary_dict) ==
    [s EXCEPT !.fs_summary = IF s.fs THEN << summary_dict >> ELSE @,
              !.summary_file = << summary_dict >>]

\* handle_history: _save_history pushes the row to the history file when the
\* file stream exists and merges it into the consolidated summary, then
\* _save_summary saves the summary and ends in _save_file, which needs the
\* directory watcher: AttributeError without it.
handle_history(data) ==
    LET pushed == [sh EXCEPT !.fs_history =
                                IF sh.fs THEN fs_push(@, sh.fs_policy.history)
                                         ELSE @]
        merged == [pushed EXCEPT !.summary = UpdateDict(@, data.items)]
    IN
    /\ sh' = save_summary(merged, HistorySummary(merged.summary, data.items))
    /\ send_thread' = IF sh.dir_watcher THEN send_thread ELSE "crashed"
    /\ UNCHANGED << resp_queue, resp_put, process_queue, notify_queue,
                    teardown, end_count, remote_runs >>

\* handle_summary: the updates, then the removes, then _save_summary. A
\* KeyError of a remove ends the handler with what was applied so far and
\* nothing saved; _save_file raises without the directory watcher.
handle_summary(data) ==
    LET applied == ApplySummary(sh.summary, data) IN
    /\ sh' = IF applied.raised
                THEN [sh EXCEPT !.summary = applied.dict]
                ELSE save_summary([sh EXCEPT !.summary = applied.dict],
                                  applied.dict)
    /\ send_thread' = IF applied.raised \/ ~sh.dir_watcher
                         THEN "crashed" ELSE send_thread
    /\ UNCHANGED << resp_queue, resp_put, process_queue, notify_queue,
                    teardown, end_count, remote_runs >>

\* handle_config: upsert_run under the run id of the held run, AttributeError
\* when no run is held; then the config file is written.
handle_config(data) ==
    /\ sh' = IF sh.run = None THEN sh
             ELSE [sh EXCEPT !.upserts = @ + 1, !.config_file = << data.items >>]
    /\ send_thread' = IF sh.run = None THEN "crashed" ELSE send_thread
    /\ UNCHANGED << resp_queue, resp_put, process_queue, notify_queue,
                    teardown, end_count, remote_runs >>

\* handle_files: _save_file for each file of the record, which needs the
\* directory watcher: AttributeError at the first file without it.
handle_files(data) ==
    /\ send_thread' = IF data.items # << >> /\ ~sh.dir_watcher
                         THEN "crashed" ELSE send_thread
    /\ UNCHANGED << sh, resp_queue, resp_put, process_queue, notify_queue,
                    teardown, end_count, remote_runs >>

\* str.endswith("\n") on a text held as the sequence of its pieces.
endswith_newline(line) == line # << >> /\ Last(line) = "\n"

\* A _partial_output with one buffer for both streams.
buffer_of_any_stream(stream) == "stdout"

\* The key of _partial_output a chunk is buffered under: its stream.
buffer_of(stream) == stream

\* handle_output: nothing without the file stream; a chunk that does not end
\* in a line terminator is appended to the buffer of its stream; one that
\* does is pushed to the output file behind the marker of its stream (and a
\* timestamp) and the buffered text, and the buffer is emptied.
handle_output(data) ==
    LET stream == IF data.stream = "stderr" THEN "stderr" ELSE "stdout"
        prepend == IF data.stream = "stderr" THEN "ERROR " ELSE ""
        prev_str == sh.partial_output[buffer_of(stream)]
    IN
    /\ sh' = IF ~sh.fs THEN sh
             ELSE IF ~endswith_newline(data.line)
                THEN [sh EXCEPT !.partial_output[buffer_of(stream)] =
                                    @ \o data.line]
                ELSE [sh EXCEPT !.fs_output =
                                    Append(@, [prepend |-> prepend,
                                               text |-> prev_str \o data.line]),
                                !.partial_output[buffer_of(stream)] = << >>]
    /\ UNCHANGED << resp_queue, resp_put, process_queue, notify_queue,
                    teardown, end_count, remote_runs, send_thread >>

\* A dispatch that raises when it finds no variant or no handler.
drop_raises(data) ==
    /\ send_thread' = "crashed"
    /\ UNCHANGED << sh, resp_queue, resp_put, process_queue, notify_queue,
                    teardown, end_count, remote_runs >>

\* A record or request with no variant or no handler is dropped.
drop(data) ==
    UNCHANGED << sh, resp_queue, resp_put, process_queue, notify_queue,
                 teardown, end_count, remote_runs, send_thread >>

\* send_request: the handler named after the nested request variant.
send_request(data) ==
    CASE data.request_type = "defer" -> handle_request_defer(data)
      [] data.request_type = "poll_exit" -> handle_request_poll_exit(data)
      [] data.request_type = "status" -> handle_request_status(data)
      [] data.request_type = "login" -> handle_request_login(data)
      [] data.request_type = "get_summary" -> handle_request_get_summary(data)
      [] OTHER -> drop(data)

\* send: the handler named after the payload variant.
send(data) ==
    CASE data.record_type = "exit" -> handle_exit(data)
      [] data.record_type = "run" -> handle_run(data)
      [] data.record_type = "history" -> handle_history(data)
      [] data.record_type = "summary" -> handle_summary(data)
      [] data.record_type = "output" -> handle_output(data)
      [] data.record_type = "config" -> handle_config(data)
      [] data.record_type = "files" -> handle_files(data)
      [] data.record_type = "request" -> send_request(data)
      [] OTHER -> drop(data)

-----------------------------------------------------------------------------
(* The threads of the daemon (internal.py) *)

\* The pusher's workers drain after the finish signal.
PusherDrain ==
    /\ ~exited
    /\ sh.pusher = "finishing"
    /\ sh' = [sh EXCEPT !.pusher = "done"]
    /\ UNCHANGED << notify_queue, process_queue, req_queue, resp_queue,
                    send_queue, write_queue, stopped, router_done, send_thread,
                    write_thread, ds, settings, call, read_thread, putting, resume_status, remote_runs, caller, outcome,
                    n_async, shutdown_sent, teardown, resp_put, handled,
                    end_count,
                    parent_exists, check_process_age, exited >>

\* The metrics watcher reads a point of an event file and buffers it.
TBEvent ==
    /\ ~exited
    /\ sh.tb_watcher
    /\ sh.tb_points < MaxTBPoints
    /\ sh' = [sh EXCEPT !.tb_points = @ + 1]
    /\ UNCHANGED << notify_queue, process_queue, req_queue, resp_queue,
                    send_queue, write_queue, stopped, router_done, send_thread,
                    write_thread, ds, settings, call, read_thread, putting, resume_status,
                    remote_runs, caller, outcome, n_async, shutdown_sent,
                    teardown, resp_put, handled, end_count,
                    parent_exists, check_process_age, exited >>

\* wandb_send, one turn of the loop: not stopped, a record from the send queue,
\* sh.send(i). An exception of the handler ends the thread.
WandbSend ==
    /\ ~exited
    /\ send_thread = "running"
    /\ ~stopped
    /\ send_queue # << >>
    /\ send_queue' = Tail(send_queue)
    /\ send(Head(send_queue))
    /\ handled' = IF send_thread' = "crashed"
                     THEN handled ELSE Append(handled, Head(send_queue))
    /\ UNCHANGED << req_queue, write_queue, stopped, router_done, write_thread,
                    ds, settings, call, read_thread, putting, resume_status, caller, outcome, n_async, shutdown_sent,
                    parent_exists, check_process_age, exited >>

\* wandb_send after the loop, SendManager.finish up to the pusher's join: the
\* watchers are finished and the pusher is told to finish.
WandbSendFinish ==
    /\ ~exited
    /\ send_thread = "running"
    /\ stopped
    /\ sh' = [sh EXCEPT !.tb_watcher = FALSE, !.dir_watcher = FALSE,
                        !.pusher = IF @ = None THEN None ELSE pusher_finish(@)]
    /\ send_thread' = "finishing"
    /\ UNCHANGED << notify_queue, process_queue, req_queue, resp_queue,
                    send_queue, write_queue, stopped, router_done, write_thread,
                    ds, settings, call, read_thread, putting, resume_status, remote_runs, caller, outcome, n_async,
                    shutdown_sent, teardown, resp_put, handled, end_count,
                    parent_exists, check_process_age, exited >>

\* SendManager.finish from the return of the pusher's join: the file stream
\* is finished and the thread ends.
WandbSendJoined ==
    /\ ~exited
    /\ send_thread = "finishing"
    /\ sh.pusher # None => pusher_joinable(sh.pusher)
    /\ sh' = [sh EXCEPT !.fs = FALSE]
    /\ send_thread' = "finished"
    /\ UNCHANGED << notify_queue, process_queue, req_queue, resp_queue,
                    send_queue, write_queue, stopped, router_done, write_thread,
                    ds, settings, call, read_thread, putting, resume_status, remote_runs, caller, outcome, n_async,
                    shutdown_sent, teardown, resp_put, handled, end_count,
                    parent_exists, check_process_age, exited >>

\* A writer that takes the newest record of the queue.
WandbWrite_newest_first ==
    /\ ~exited
    /\ write_thread = "running"
    /\ ~stopped
    /\ write_queue # << >>
    /\ ds' = Append(ds, write_queue[Len(write_queue)])
    /\ write_queue' = SubSeq(write_queue, 1, Len(write_queue) - 1)
    /\ UNCHANGED << notify_queue, process_queue, req_queue, resp_queue,
                    send_queue, stopped, router_done, send_thread, write_thread,
                    sh, settings, call, read_thread, putting, resume_status, remote_runs, caller, outcome, n_async,
                    shutdown_sent, teardown, resp_put, handled, end_count,
                    parent_exists, check_process_age, exited >>

\* wandb_write, one turn of the loop: not stopped, a record from the write
\* queue, ds.write(i).
WandbWrite ==
    /\ ~exited
    /\ write_thread = "running"
    /\ ~stopped
    /\ write_queue # << >>
    /\ ds' = Append(ds, Head(write_queue))
    /\ write_queue' = Tail(write_queue)
    /\ UNCHANGED << notify_queue, process_queue, req_queue, resp_queue,
                    send_queue, stopped, router_done, send_thread, write_thread,
                    sh, settings, call, read_thread, putting, resume_status, remote_runs, caller, outcome, n_async,
                    shutdown_sent, teardown, resp_put, handled, end_count,
                    parent_exists, check_process_age, exited >>

\* wandb_write after the loop: ds.close().
WandbWriteFinish ==
    /\ ~exited
    /\ write_thread = "running"
    /\ stopped
    /\ write_thread' = "finished"
    /\ UNCHANGED << notify_queue, process_queue, req_queue, resp_queue,
                    send_queue, write_queue, stopped, router_done, send_thread,
                    ds, sh, settings, call, read_thread, putting, resume_status, remote_runs, caller, outcome, n_async,
                    shutdown_sent, teardown, resp_put, handled, end_count,
                    parent_exists, check_process_age, exited >>

\* wandb_read after the loop; nothing is ever put on its queue.
WandbReadFinish ==
    /\ ~exited
    /\ read_thread = "running"
    /\ stopped
    /\ read_thread' = "finished"
    /\ UNCHANGED << notify_queue, process_queue, req_queue, resp_queue,
                    send_queue, write_queue, stopped, router_done, send_thread,
                    write_thread, ds, sh, settings, call, putting, resume_status,
                    remote_runs, caller, outcome, n_async, shutdown_sent,
                    teardown, resp_put, handled, end_count,
                    parent_exists, check_process_age, exited >>

\* _check_process: nothing when the check is disabled or the interval has not
\* passed since the last check; else the check is timed anew and the daemon
\* exits when the parent process is gone.
check_process ==
    IF settings.internal_check_process = 0
        THEN UNCHANGED << check_process_age, exited >>
    ELSE IF check_process_age # NoneInt
            /\ check_process_age < settings.internal_check_process
        THEN UNCHANGED << check_process_age, exited >>
    ELSE /\ check_process_age' = 0
         /\ exited' = ~parent_exists

\* The router loop of wandb_internal forwards a record: the send queue exists
\* unless the daemon is offline.
RouterForward(rec, to_send, to_write) ==
    /\ send_queue' = IF to_send THEN Append(send_queue, rec) ELSE send_queue
    /\ write_queue' = IF to_write THEN Append(write_queue, rec) ELSE write_queue

\* A router that forwards to the network sender whether or not it is offline.
RouterProcess_ignores_offline ==
    /\ ~exited
    /\ ~router_done
    /\ notify_queue # << >>
    /\ Head(notify_queue) = NOTIFY_PROCESS
    /\ process_queue # << >>
    /\ notify_queue' = Tail(notify_queue)
    /\ process_queue' = Tail(process_queue)
    /\ RouterForward(Head(process_queue), TRUE, TRUE)
    /\ UNCHANGED << req_queue, stopped, router_done, resp_queue, send_thread,
                    write_thread, ds, sh, settings, call, read_thread, putting, resume_status, remote_runs, caller,
                    outcome, n_async, shutdown_sent, teardown, resp_put,
                    handled, end_count,
                    parent_exists >>
    /\ check_process

\* NOTIFY_PROCESS: one record from the process queue, to the send queue (unless
\* offline) and to the write queue.
RouterProcess ==
    /\ ~exited
    /\ ~router_done
    /\ notify_queue # << >>
    /\ Head(notify_queue) = NOTIFY_PROCESS
    /\ process_queue # << >>
    /\ notify_queue' = Tail(notify_queue)
    /\ process_queue' = Tail(process_queue)
    /\ RouterForward(Head(process_queue), ~settings.offline, TRUE)
    /\ UNCHANGED << req_queue, stopped, router_done, resp_queue, send_thread,
                    write_thread, ds, sh, settings, call, read_thread, putting, resume_status, remote_runs, caller,
                    outcome, n_async, shutdown_sent, teardown, resp_put,
                    handled, end_count,
                    parent_exists >>
    /\ check_process

\* NOTIFY_REQUEST: one record from the request queue, to the send queue (unless
\* offline) and, unless it is marked local, to the write queue.
RouterRequest ==
    /\ ~exited
    /\ ~router_done
    /\ notify_queue # << >>
    /\ Head(notify_queue) = NOTIFY_REQUEST
    /\ req_queue # << >>
    /\ notify_queue' = Tail(notify_queue)
    /\ req_queue' = Tail(req_queue)
    /\ RouterForward(Head(req_queue), ~settings.offline, ~Head(req_queue).local)
    /\ UNCHANGED << process_queue, stopped, router_done, resp_queue,
                    send_thread, write_thread, ds, sh, settings, call, read_thread, putting, resume_status, remote_runs,
                    caller, outcome, n_async, shutdown_sent, teardown, resp_put,
                    handled, end_count,
                    parent_exists >>
    /\ check_process

\* A router that goes back to the queue after queue.Empty without the check.
RouterIdle_skips_check ==
    /\ ~exited
    /\ ~router_done
    /\ notify_queue = << >>
    /\ UNCHANGED vars

\* notify_queue.get raises queue.Empty after the queue timeout: nothing is
\* routed, and _check_process runs.
RouterIdle ==
    /\ ~exited
    /\ ~router_done
    /\ notify_queue = << >>
    /\ check_process
    /\ UNCHANGED << notify_queue, process_queue, req_queue, resp_queue,
                    send_queue, write_queue, stopped, router_done, send_thread,
                    write_thread, ds, sh, settings, call, read_thread, putting, resume_status, remote_runs, caller,
                    outcome, n_async, shutdown_sent, teardown, resp_put,
                    handled, end_count, parent_exists >>

\* A router that ends its loop on NOTIFY_SHUTDOWN and leaves the stop flag.
RouterShutdown_leaves_flag ==
    /\ ~exited
    /\ ~router_done
    /\ notify_queue # << >>
    /\ Head(notify_queue) = NOTIFY_SHUTDOWN
    /\ notify_queue' = Tail(notify_queue)
    /\ router_done' = TRUE
    /\ UNCHANGED << process_queue, req_queue, send_queue, write_queue,
                    resp_queue, send_thread, write_thread, ds, sh, settings,
                    call, read_thread, putting, resume_status, stopped,
                    remote_runs, caller, outcome, n_async, shutdown_sent,
                    teardown, resp_put, handled, end_count,
                    parent_exists, check_process_age, exited >>

\* NOTIFY_SHUTDOWN: the stop flag is set and the loop ends.
RouterShutdown ==
    /\ ~exited
    /\ ~router_done
    /\ notify_queue # << >>
    /\ Head(notify_queue) = NOTIFY_SHUTDOWN
    /\ notify_queue' = Tail(notify_queue)
    /\ stopped' = TRUE
    /\ router_done' = TRUE
    /\ UNCHANGED << process_queue, req_queue, send_queue, write_queue,
                    resp_queue, send_thread, write_thread, ds, sh, settings, call, read_thread, putting, resume_status,
                    remote_runs, caller, outcome, n_async, shutdown_sent,
                    teardown, resp_put, handled, end_count,
                    parent_exists, check_process_age, exited >>

\* Time passes since the last parent check.
Tick ==
    /\ check_process_age # NoneInt
    /\ check_process_age < settings.internal_check_process
    /\ check_process_age' = check_process_age + 1
    /\ UNCHANGED << notify_queue, process_queue, req_queue, resp_queue,
                    send_queue, write_queue, stopped, router_done, send_thread,
                    write_thread, ds, sh, settings, call, read_thread, putting, resume_status, remote_runs, caller,
                    outcome, n_async, shutdown_sent, teardown, resp_put,
                    handled, end_count, parent_exists, exited >>

\* The parent process of the daemon disappears.
ParentDies ==
    /\ parent_exists
    /\ parent_exists' = FALSE
    /\ UNCHANGED << notify_queue, process_queue, req_queue, resp_queue,
                    send_queue, write_queue, stopped, router_done, send_thread,
                    write_thread, ds, sh, settings, call, read_thread, putting, resume_status, remote_runs, caller,
                    outcome, n_async, shutdown_sent, teardown, resp_put,
                    handled, end_count, check_process_age, exited >>

-----------------------------------------------------------------------------
(* The producing side: BackendSender (interface.py) *)

SyncKinds == {"login", "run", "exit", "get_summary", "status", "poll_exit"}
AsyncKinds == {"run"}
ExitCodes == {0, 1}
RunIds == {"r1"}
CallerTimeouts == {1}
ResumeModes == {None, "never"}
OfflineModes == {FALSE, TRUE}
AllResumeModes == {None, "must", "never", "allow", "auto"}

\* The prior runs the remote service can report: a run with history and
\* events whose last events row is the later or the earlier one, and a run
\* with events and no history row.
ResumeStatuses ==
    { [exists |-> TRUE, historyLineCount |-> 12, eventsLineCount |-> 3,
       logLineCount |-> 7,
       historyTail |-> << [step |-> 5, runtime |-> 40] >>,
       eventsTail |-> << [step |-> -1, runtime |-> rt] >>] : rt \in {20, 60} }
    \cup
    { [exists |-> TRUE, historyLineCount |-> 0, eventsLineCount |-> 3,
       logLineCount |-> 7, historyTail |-> << >>,
       eventsTail |-> << [step |-> -1, runtime |-> 20] >>] }

\* The prior run of the runs that do not look at its tails.
PriorRun ==
    [exists |-> TRUE, historyLineCount |-> 12, eventsLineCount |-> 3,
     logLineCount |-> 7,
     historyTail |-> << [step |-> 5, runtime |-> 40] >>,
     eventsTail |-> << [step |-> -1, runtime |-> 20] >>]

CheckProcessInterval == 2     \* settings._internal_check_process, when enabled

\* The config of the run object the producer passes to send_run.
RunConfig == << <<"lr", 1>> >>

\* _make_record / _make_request: the record of a call; no builder sets a uuid.
MakeRecord(kind, exit_code, run_id) ==
    IF kind \in {"run", "exit"}
        THEN [Record(kind, "", FALSE, FALSE, "", exit_code)
                 EXCEPT !.run_id = run_id,
                        !.items = IF kind = "run" THEN RunConfig ELSE << >>]
        ELSE Record("request", kind, FALSE, FALSE, "", 0)

\* The timeout a synchronous call passes to _request_response when its caller
\* supplies none: send_login_sync has timeout=5, send_run_sync and
\* send_exit_sync have timeout=None, the others call _request_response(rec).
WrapperTimeout(kind) ==
    IF kind = "login" THEN DefaultTimeout
    ELSE IF kind \in {"run", "exit"} THEN NoneInt
    ELSE DefaultTimeout

\* The threads that put records on the channels, each through an interface
\* of its own: the user's process, the stats thread of the daemon and the
\* SendManager.
Producers == {"caller", "stats", "sender"}

\* A producer between two puts.
NoPut ==
    [left |-> "", channel |-> "", rec |-> Record("", "", FALSE, FALSE, "", 0),
     n |-> 0]

\* constants.NOTIFY_PROCESS for the process queue, NOTIFY_REQUEST for the
\* request queue.
TagOf(channel) ==
    IF channel = "process" THEN NOTIFY_PROCESS ELSE NOTIFY_REQUEST

\* A producer that puts the tag first and has the record left to put.
put_first_tag(p, channel, rec) ==
    /\ notify_queue' = Append(notify_queue, TagOf(channel))
    /\ putting' = [putting EXCEPT ![p] = [left |-> "record",
                                          channel |-> channel, rec |-> rec,
                                          n |-> @.n + 1]]
    /\ UNCHANGED << process_queue, req_queue >>

\* The first put of _queue_process and of _request_response: the record on
\* its queue; the tag is left to put.
put_first(p, channel, rec) ==
    /\ process_queue' = IF channel = "process"
                            THEN Append(process_queue, rec)
                            ELSE process_queue
    /\ req_queue' = IF channel = "request"
                        THEN Append(req_queue, rec)
                        ELSE req_queue
    /\ putting' = [putting EXCEPT ![p] = [left |-> "tag",
                                          channel |-> channel, rec |-> rec,
                                          n |-> @.n + 1]]
    /\ UNCHANGED notify_queue

\* The second put of _queue_process and of _request_response: what is left.
put_rest(p) ==
    LET put == putting[p]
    IN  /\ notify_queue' = IF put.left = "tag"
                               THEN Append(notify_queue, TagOf(put.channel))
                               ELSE notify_queue
        /\ process_queue' = IF put.left = "record" /\ put.channel = "process"
                                THEN Append(process_queue, put.rec)
                                ELSE process_queue
        /\ req_queue' = IF put.left = "record" /\ put.channel = "request"
                            THEN Append(req_queue, put.rec)
                            ELSE req_queue
        /\ putting' = [putting EXCEPT ![p].left = ""]

\* What each producer puts, as <<channel, record>>: the caller History
\* records and get_summary requests (req_resp set by _request_response), the
\* stats thread Stats records, the SendManager defer requests.
ProducerPuts(p) ==
    CASE p = "caller" ->
             { <<"process", Record("history", "", FALSE, FALSE, "", 0)>>,
               <<"request", Record("request", "get_summary", TRUE, FALSE, "", 0)>> }
      [] p = "stats" ->
             { <<"process", Record("stats", "", FALSE, FALSE, "", 0)>> }
      [] p = "sender" ->
             { <<"process", DeferRecord>> }

\* A producer runs the first put of _queue_process or _request_response.
PutRecord ==
    /\ \E p \in Producers :
          /\ putting[p].left = ""
          /\ putting[p].n < MaxPuts
          /\ \E put \in ProducerPuts(p) : put_first(p, put[1], put[2])
    /\ UNCHANGED << resp_queue, send_queue, write_queue, stopped, router_done,
                    send_thread, write_thread, ds, sh, settings, call,
                    read_thread, resume_status, remote_runs, caller, outcome,
                    n_async, shutdown_sent, teardown, resp_put, handled,
                    end_count, parent_exists, check_process_age, exited >>

\* A producer runs the second put.
PutTag ==
    /\ \E p \in Producers :
          /\ putting[p].left # ""
          /\ put_rest(p)
    /\ UNCHANGED << resp_queue, send_queue, write_queue, stopped, router_done,
                    send_thread, write_thread, ds, sh, settings, call,
                    read_thread, resume_status, remote_runs, caller, outcome,
                    n_async, shutdown_sent, teardown, resp_put, handled,
                    end_count, parent_exists, check_process_age, exited >>

\* Which calls take a timeout argument.
TakesTimeout(kind) == kind \in {"login", "run", "exit"}

\* _queue_process: the record on the process queue, then a PROCESS tag.
queue_process(rec) ==
    /\ process_queue' = Append(process_queue, rec)
    /\ notify_queue' = Append(notify_queue, NOTIFY_PROCESS)

\* A fire-and-forget call of the producer.
AsyncSend ==
    /\ n_async < MaxAsync
    /\ \E kind \in AsyncKinds, code \in ExitCodes, run_id \in RunIds :
          /\ kind # "exit" => code = 0
          /\ queue_process(MakeRecord(kind, code, run_id))
    /\ n_async' = n_async + 1
    /\ UNCHANGED << req_queue, resp_queue, send_queue, write_queue, stopped,
                    router_done, send_thread, write_thread, ds, sh, settings, call, read_thread, putting, resume_status,
                    remote_runs, caller, outcome, shutdown_sent, teardown,
                    resp_put, handled, end_count,
                    parent_exists, check_process_age, exited >>

\* The run ids of the Run records of another run object.
OtherRunIds == {"r2"}

\* send_run of a run object with another run id, fire-and-forget.
RunUpdateSend ==
    /\ n_async < MaxRunUpdates
    /\ \E run_id \in OtherRunIds : queue_process(MakeRecord("run", 0, run_id))
    /\ n_async' = n_async + 1
    /\ UNCHANGED << req_queue, resp_queue, send_queue, write_queue, stopped,
                    router_done, send_thread, write_thread, ds, sh, settings, call, read_thread, putting,
                    resume_status, remote_runs, caller, outcome, shutdown_sent,
                    teardown, resp_put, handled, end_count,
                    parent_exists, check_process_age, exited >>

\* The items of the History records and the update items and removed keys of
\* the Summary records the producers send.
HistoryRow == << <<"a", 1>> >>

HistoryDicts ==
    { << <<"a", 1>> >>, << <<"a", 2>>, <<"b", 1>> >>, << <<"b", 2>> >> }

SummaryUpdates == { << >>, << <<"a", 1>> >>, << <<"b", 2>>, <<"a", 2>> >> }

SummaryRemoves == { << >>, <<"a">>, <<"b", "a">> }

\* send_history of any of the rows, fire-and-forget.
HistorySendAny ==
    /\ n_async < MaxSummary
    /\ \E items \in HistoryDicts :
          queue_process([Record("history", "", FALSE, FALSE, "", 0)
                            EXCEPT !.items = items])
    /\ n_async' = n_async + 1
    /\ UNCHANGED << req_queue, resp_queue, send_queue, write_queue, stopped,
                    router_done, send_thread, write_thread, ds, sh, settings, call, read_thread, putting,
                    resume_status, remote_runs, caller, outcome, shutdown_sent,
                    teardown, resp_put, handled, end_count,
                    parent_exists, check_process_age, exited >>

\* A Summary record with update and remove instructions, fire-and-forget.
SummarySend ==
    /\ n_async < MaxSummary
    /\ \E items \in SummaryUpdates, remove \in SummaryRemoves :
          queue_process([Record("summary", "", FALSE, FALSE, "", 0)
                            EXCEPT !.items = items, !.remove = remove])
    /\ n_async' = n_async + 1
    /\ UNCHANGED << req_queue, resp_queue, send_queue, write_queue, stopped,
                    router_done, send_thread, write_thread, ds, sh, settings, call, read_thread, putting,
                    resume_status, remote_runs, caller, outcome, shutdown_sent,
                    teardown, resp_put, handled, end_count,
                    parent_exists, check_process_age, exited >>

\* The streams and the chunks of text the producer writes.
OutputStreams == {"stdout", "stderr"}

OutputChunks == { <<"hello">>, <<" world", "\n">>, <<"\n", "bye">> }

\* send_output: a chunk of one stream, fire-and-forget.
OutputSend ==
    /\ n_async < MaxOutput
    /\ \E name \in OutputStreams, chunk \in OutputChunks :
          queue_process([Record("output", "", FALSE, FALSE, "", 0)
                            EXCEPT !.stream = name, !.line = chunk])
    /\ n_async' = n_async + 1
    /\ UNCHANGED << req_queue, resp_queue, send_queue, write_queue, stopped,
                    router_done, send_thread, write_thread, ds, sh, settings, call, read_thread, putting,
                    resume_status, remote_runs, caller, outcome, shutdown_sent,
                    teardown, resp_put, handled, end_count,
                    parent_exists, check_process_age, exited >>

\* send_config, send_files and send_defer: a Config record, a Files record of
\* one file or a defer request, fire-and-forget.
ConfigFilesDeferSend ==
    /\ n_async < MaxAsync
    /\ \E rec \in { [Record("config", "", FALSE, FALSE, "", 0)
                        EXCEPT !.items = << <<"a", 1>> >>],
                     [Record("files", "", FALSE, FALSE, "", 0)
                        EXCEPT !.items = << <<"a.txt", "end">> >>],
                     DeferRecord } :
          queue_process(rec)
    /\ n_async' = n_async + 1
    /\ UNCHANGED << req_queue, resp_queue, send_queue, write_queue, stopped,
                    router_done, send_thread, write_thread, ds, sh, settings,
                    call, read_thread, putting, resume_status, remote_runs, caller,
                    outcome, shutdown_sent, teardown, resp_put, handled,
                    end_count, parent_exists, check_process_age, exited >>

\* send_history: a History record, fire-and-forget.
HistorySend ==
    /\ n_async < MaxHistory
    /\ queue_process([Record("history", "", FALSE, FALSE, "", 0)
                         EXCEPT !.items = HistoryRow])
    /\ n_async' = n_async + 1
    /\ UNCHANGED << req_queue, resp_queue, send_queue, write_queue, stopped,
                    router_done, send_thread, write_thread, ds, sh, settings, call, read_thread, putting,
                    resume_status, remote_runs, caller, outcome, shutdown_sent,
                    teardown, resp_put, handled, end_count,
                    parent_exists, check_process_age, exited >>

\* Records no builder of BackendSender makes: a Record with no variant, a
\* Record of a variant SendManager has no handler for, a Request with no
\* nested variant and a Request of a nested variant with no handler.
ForeignRecords ==
    { Record("", "", FALSE, FALSE, "", 0),
      Record("header", "", FALSE, FALSE, "", 0),
      Record("request", "", FALSE, FALSE, "", 0),
      Record("request", "future", FALSE, FALSE, "", 0) }

\* Another producer puts such a record on the process queue.
ForeignSend ==
    /\ n_async < MaxAsync
    /\ \E rec \in ForeignRecords : queue_process(rec)
    /\ n_async' = n_async + 1
    /\ UNCHANGED << req_queue, resp_queue, send_queue, write_queue, stopped,
                    router_done, send_thread, write_thread, ds, sh, settings, call, read_thread, putting, resume_status,
                    remote_runs, caller, outcome, shutdown_sent, teardown,
                    resp_put, handled, end_count,
                    parent_exists, check_process_age, exited >>

\* _request_response up to the wait: req_resp is set, the record goes on the
\* request queue, then a REQUEST tag. The uuid is the one the record came
\* with: empty from the builders above, or one the calling layer gave it.
RequestSend(rec) ==
    /\ req_queue' = Append(req_queue, [rec EXCEPT !.req_resp = TRUE])
    /\ notify_queue' = Append(notify_queue, NOTIFY_REQUEST)

SyncCallUpTo(calls) ==
    /\ caller.pc = "idle"
    /\ caller.n < calls
    /\ \E kind \in SyncKinds, code \in ExitCodes, run_id \in RunIds,
          uuid \in {"", ToString(caller.n + 1)},
          timeout \in CallerTimeouts \cup {NoneInt} :
          /\ kind # "exit" => code = 0
          /\ ~TakesTimeout(kind) => timeout = NoneInt
          /\ RequestSend([MakeRecord(kind, code, run_id) EXCEPT !.uuid = uuid])
          /\ caller' = [pc |-> "wait", n |-> caller.n + 1, kind |-> kind,
                        uuid |-> uuid, supplied |-> timeout,
                        timeout |-> IF timeout = NoneInt
                                       THEN WrapperTimeout(kind) ELSE timeout]
    /\ UNCHANGED << process_queue, resp_queue, send_queue, write_queue, stopped,
                    router_done, send_thread, write_thread, ds, sh, settings, call, read_thread, putting, resume_status,
                    remote_runs, outcome, n_async, shutdown_sent, teardown,
                    resp_put, handled, end_count,
                    parent_exists, check_process_age, exited >>

SyncCall == SyncCallUpTo(MaxSync)

\* A _request_response that raises ExceptionTimeout on queue.Empty.
OnQueueEmpty_raises == [rr |-> NoResponse, raised |-> "ExceptionTimeout"]

\* What _request_response does when response_queue.get raises queue.Empty:
\* it returns None.
OnQueueEmpty == [rr |-> NoResponse, raised |-> ""]

\* What the send_*_sync wrapper raises for the value rr of _request_response.
WrapperRaises(kind, rr) ==
    IF kind \in {"login", "run", "exit"}
        THEN (IF rr = NoResponse THEN "wandb.Error" ELSE "")
    ELSE IF kind = "get_summary"
        THEN (IF rr = NoResponse THEN "AttributeError" ELSE "")
    ELSE ""

\* The end of a synchronous call for what _request_response returned or raised.
CallEnds(r) ==
    /\ outcome' = [n |-> caller.n, kind |-> caller.kind, uuid |-> caller.uuid,
                   rr |-> r.rr, rr_raised |-> r.raised,
                   raised |-> IF r.raised # ""
                                 THEN r.raised
                                 ELSE WrapperRaises(caller.kind, r.rr)]
    /\ caller' = [caller EXCEPT !.pc = "idle"]

\* response_queue.get returns the first Result of the queue.
ResponseGet ==
    /\ caller.pc = "wait"
    /\ resp_queue # << >>
    /\ resp_queue' = Tail(resp_queue)
    /\ CallEnds([rr |-> Head(resp_queue), raised |-> ""])
    /\ UNCHANGED << notify_queue, process_queue, req_queue, send_queue,
                    write_queue, stopped, router_done, send_thread, write_thread,
                    ds, sh, settings, call, read_thread, putting, resume_status, remote_runs, n_async, shutdown_sent,
                    teardown, resp_put, handled, end_count,
                    parent_exists, check_process_age, exited >>

\* response_queue.get(timeout) raises queue.Empty: the queue stayed empty for
\* the timeout, which a timeout of None never lets happen.
ResponseTimeout ==
    /\ caller.pc = "wait"
    /\ resp_queue = << >>
    /\ caller.timeout # NoneInt
    /\ CallEnds(OnQueueEmpty)
    /\ UNCHANGED << notify_queue, process_queue, req_queue, resp_queue,
                    send_queue, write_queue, stopped, router_done, send_thread,
                    write_thread, ds, sh, settings, call, read_thread, putting, resume_status, remote_runs, n_async,
                    shutdown_sent, teardown, resp_put, handled, end_count,
                    parent_exists, check_process_age, exited >>

\* The producing side ends the daemon: a SHUTDOWN tag.
Shutdown ==
    /\ ~shutdown_sent
    /\ notify_queue' = Append(notify_queue, NOTIFY_SHUTDOWN)
    /\ shutdown_sent' = TRUE
    /\ UNCHANGED << process_queue, req_queue, resp_queue, send_queue,
                    write_queue, stopped, router_done, send_thread, write_thread,
                    ds, sh, settings, call, read_thread, putting, resume_status, remote_runs, caller, outcome, n_async,
                    teardown, resp_put, handled, end_count,
                    parent_exists, check_process_age, exited >>

-----------------------------------------------------------------------------
(* The specification *)

NoOutcome ==
    [n |-> 0, kind |-> "", uuid |-> "", rr |-> NoResponse, rr_raised |-> "",
     raised |-> ""]

InitDaemon(check_intervals, resume_modes, statuses, offline_modes) ==
    /\ notify_queue = << >>
    /\ process_queue = << >>
    /\ req_queue = << >>
    /\ resp_queue = << >>
    /\ send_queue = << >>
    /\ write_queue = << >>
    /\ stopped = FALSE
    /\ router_done = FALSE
    /\ write_thread = "running"
    /\ ds = << >>
    /\ sh = SendManagerInit
    /\ settings \in [resume : resume_modes, offline : offline_modes,
                      internal_check_process : check_intervals]
    /\ resume_status \in statuses
    /\ send_thread = IF settings.offline THEN None ELSE "running"
    /\ read_thread = IF settings.offline THEN None ELSE "running"
    /\ putting = [p \in Producers |-> NoPut]
    /\ remote_runs = IF resume_status.exists THEN RunIds ELSE {}
    /\ caller = [pc |-> "idle", n |-> 0, kind |-> "", uuid |-> "",
                 supplied |-> NoneInt, timeout |-> NoneInt]
    /\ outcome = NoOutcome
    /\ n_async = 0
    /\ shutdown_sent = FALSE
    /\ teardown = << >>
    /\ resp_put = << >>
    /\ handled = << >>
    /\ end_count = 0
    /\ parent_exists = TRUE
    /\ check_process_age = NoneInt
    /\ exited = FALSE

\* No builder is being called.
NoCall ==
    [fn |-> "", pc |-> "done", payloads |-> {}, entries |-> << >>,
     config |-> << >>, raised |-> "", variant |-> "", contents |-> << >>]

InitOf(check_intervals, resume_modes, statuses, offline_modes) ==
    /\ InitDaemon(check_intervals, resume_modes, statuses, offline_modes)
    /\ call = NoCall

\* The daemon starts with the parent check enabled.
Init == InitOf({CheckProcessInterval}, ResumeModes, {PriorRun}, OfflineModes)

\* The daemon at work: the producer, the router, the send thread and the
\* pusher. The write thread only moves records from write_queue to ds, which no
\* other thread reads; it and the shutdown are part of SpecAll.
Next ==
    \/ SyncCall
    \/ ResponseGet
    \/ ResponseTimeout
    \/ AsyncSend
    \/ RouterProcess
    \/ RouterRequest
    \/ WandbSend
    \/ PusherDrain

Spec == Init /\ [][Next]_vars

\* The daemon at work with the write thread and the shutdown of the daemon.
NextAll ==
    \/ SyncCall /\ caller.n < MaxSyncAll
    \/ ResponseGet
    \/ ResponseTimeout
    \/ AsyncSend
    \/ RouterProcess
    \/ RouterRequest
    \/ WandbSend
    \/ PusherDrain
    \/ Shutdown
    \/ RouterShutdown
    \/ WandbSendFinish
    \/ WandbSendJoined
    \/ WandbWrite
    \/ WandbWriteFinish

SpecAll == Init /\ [][NextAll]_vars

\* The daemon at work with a producer of records it has no handler for.
NextDispatch ==
    \/ SyncCall /\ caller.n < MaxSyncAll
    \/ ResponseGet
    \/ ResponseTimeout
    \/ AsyncSend
    \/ ForeignSend
    \/ RouterProcess
    \/ RouterRequest
    \/ WandbSend
    \/ PusherDrain

SpecDispatch == Init /\ [][NextDispatch]_vars

\* The daemon online at work on Run, Exit and History records, for every resume
\* setting and with or without a prior run on the remote service.
InitResume ==
    InitOf({CheckProcessInterval}, AllResumeModes,
           ResumeStatuses \cup {NoStatus}, {FALSE})

NextResume ==
    \/ SyncCall /\ caller.n < MaxSyncAll /\ caller'.kind \in {"run", "exit"}
    \/ ResponseGet
    \/ ResponseTimeout
    \/ AsyncSend
    \/ HistorySend
    \/ RouterProcess
    \/ RouterRequest
    \/ WandbSend
    \/ PusherDrain

SpecResume == InitResume /\ [][NextResume]_vars

\* The daemon at work on Run records of two run ids.
NextRunId ==
    \/ SyncCall /\ caller.n < MaxSyncAll /\ caller'.kind = "run"
    \/ ResponseGet
    \/ ResponseTimeout
    \/ AsyncSend
    \/ RunUpdateSend
    \/ RouterProcess
    \/ RouterRequest
    \/ WandbSend

SpecRunId == Init /\ [][NextRunId]_vars

\* The daemon at work on a Run record and History and Summary records.
NextSummary ==
    \/ SyncCall /\ caller.n < MaxSyncAll /\ caller'.kind = "run"
    \/ ResponseGet
    \/ ResponseTimeout
    \/ HistorySendAny
    \/ SummarySend
    \/ RouterProcess
    \/ RouterRequest
    \/ WandbSend

SpecSummary == Init /\ [][NextSummary]_vars

\* The daemon at work on a Run record and chunks of output.
NextOutput ==
    \/ SyncCall /\ caller.n < MaxSyncAll /\ caller'.kind = "run"
    \/ ResponseGet
    \/ ResponseTimeout
    \/ OutputSend
    \/ RouterProcess
    \/ RouterRequest
    \/ WandbSend

SpecOutput == Init /\ [][NextOutput]_vars

\* The daemon online, with no resume setting.
InitOnline == InitOf({CheckProcessInterval}, {None}, {PriorRun}, {FALSE})

\* The daemon at work on a Run record and on send_exit_sync calls that give
\* up after their timeout and send_poll_exit_sync calls, all with the empty
\* uuid of the builders.
NextPoll ==
    \/ /\ SyncCallUpTo(MaxPoll)
       /\ caller'.kind \in {"exit", "poll_exit"}
       /\ caller'.uuid = ""
       /\ caller'.kind = "exit" => caller'.supplied # NoneInt
    \/ ResponseGet
    \/ ResponseTimeout
    \/ AsyncSend
    \/ RouterProcess
    \/ RouterRequest
    \/ WandbSend
    \/ PusherDrain

SpecPoll == InitOnline /\ [][NextPoll]_vars

\* The keyword arguments of _make_record in the order of its elif chain, and
\* those of _make_request.
RecordPayloads ==
    << "run", "config", "summary", "history", "files", "stats", "exit",
       "artifact", "request" >>

RequestPayloads == << "login", "defer", "get_summary", "pause", "resume" >>

Range(seq) == { seq[i] : i \in 1..Len(seq) }

\* The if/elif chain of a builder: the first keyword argument, in the order
\* of the chain, that was given; `else: raise Exception("problem")`.
FirstGiven(chain, given) ==
    IF Range(chain) \cap given = {}
        THEN [raised |-> "Exception", variant |-> ""]
        ELSE [raised |-> "",
              variant |-> chain[CHOOSE i \in 1..Len(chain) :
                                   /\ chain[i] \in given
                                   /\ \A j \in 1..(i - 1) : chain[j] \notin given]]

make_record(given) == FirstGiven(RecordPayloads, given)

\* _make_request: the chain over its own arguments, then
\* _make_record(request=request).
make_request(given) ==
    IF FirstGiven(RequestPayloads, given).raised # ""
        THEN FirstGiven(RequestPayloads, given)
        ELSE make_record({"request"})

\* The paths of the manifest entries, in the order str compares them.
Paths == << "a.txt", "b.txt", "c.txt" >>

PathIndex(path) == CHOOSE i \in 1..Len(Paths) : Paths[i] = path

\* A manifest builder that keeps the entries in insertion order.
sorted_by_path_not(entries) == entries

\* sorted(entries, key=lambda k: k.path): a stable sort, ascending.
RECURSIVE sorted_by_path(_)
sorted_by_path(entries) ==
    IF entries = << >> THEN << >>
    ELSE LET m == CHOOSE i \in 1..Len(entries) :
                     \A j \in 1..Len(entries) :
                        \/ PathIndex(entries[i]) < PathIndex(entries[j])
                        \/ PathIndex(entries[i]) = PathIndex(entries[j]) /\ i <= j
         IN << entries[m] >> \o
            sorted_by_path(SubSeq(entries, 1, m - 1)
                              \o SubSeq(entries, m + 1, Len(entries)))

\* _make_artifact_manifest: `for k, v in config() or {}` unpacks each key of
\* the storage policy config, ValueError unless the key has two characters;
\* then one entry of the contents per manifest entry, sorted by path.
make_artifact_manifest(config, entries) ==
    IF \E i \in 1..Len(config) : config[i] # 2
        THEN [raised |-> "ValueError", contents |-> << >>]
        ELSE [raised |-> "", contents |-> sorted_by_path(entries)]

\* The manifests the builder is given: up to MaxEntries entries of different
\* paths in any insertion order, and a storage policy config with no key, a
\* key of two characters or a longer key (the lengths of the keys).
ManifestEntries ==
    { e \in UNION { [1..n -> Range(Paths)] : n \in 0..MaxEntries } :
         \A i, j \in 1..Len(e) : i # j => e[i] # e[j] }

PolicyConfigs == { << >>, << 2 >>, << 6 >> }

BuilderCalls ==
    { [NoCall EXCEPT !.fn = "_make_record", !.pc = "start", !.payloads = g] :
         g \in SUBSET Range(RecordPayloads) }
    \cup
    { [NoCall EXCEPT !.fn = "_make_request", !.pc = "start", !.payloads = g] :
         g \in SUBSET Range(RequestPayloads) }
    \cup
    { [NoCall EXCEPT !.fn = "_make_artifact_manifest", !.pc = "start",
                     !.entries = e, !.config = c] :
         e \in ManifestEntries, c \in PolicyConfigs }

daemon_vars ==
    << notify_queue, process_queue, req_queue, resp_queue, send_queue,
       write_queue, stopped, router_done, send_thread, write_thread, ds,
       sh, settings, remote_runs, resume_status, caller, outcome, n_async,
       shutdown_sent, teardown, resp_put, handled, end_count,
       parent_exists, check_process_age, exited, read_thread, putting >>

MakeRecordCall ==
    /\ call.fn = "_make_record" /\ call.pc = "start"
    /\ call' = [call EXCEPT !.pc = "done",
                            !.raised = make_record(call.payloads).raised,
                            !.variant = make_record(call.payloads).variant]
    /\ UNCHANGED daemon_vars

MakeRequestCall ==
    /\ call.fn = "_make_request" /\ call.pc = "start"
    /\ call' = [call EXCEPT !.pc = "done",
                            !.raised = make_request(call.payloads).raised,
                            !.variant = make_request(call.payloads).variant]
    /\ UNCHANGED daemon_vars

MakeArtifactManifestCall ==
    /\ call.fn = "_make_artifact_manifest" /\ call.pc = "start"
    /\ call' = [call EXCEPT
                   !.pc = "done",
                   !.raised =
                       make_artifact_manifest(call.config, call.entries).raised,
                   !.contents =
                       make_artifact_manifest(call.config, call.entries).contents]
    /\ UNCHANGED daemon_vars

\* The builders of BackendSender, each called once on any of the inputs.
InitBuilders ==
    /\ InitDaemon({CheckProcessInterval}, {None}, {PriorRun}, {FALSE})
    /\ call \in BuilderCalls

NextBuilders == MakeRecordCall \/ MakeRequestCall \/ MakeArtifactManifestCall

SpecBuilders == InitBuilders /\ [][NextBuilders]_vars

\* The daemon online at work on a Run record sent before the exit, a
\* send_exit_sync call and History records logged at any time once the run is
\* set up, with no shutdown. The router and
\* the send thread keep running and the pusher drains.
NextExit ==
    \/ SyncCall /\ caller.n < MaxSyncAll /\ caller'.kind = "exit"
    \/ ResponseGet
    \/ ResponseTimeout
    \/ AsyncSend /\ caller.n = 0
    \/ HistorySend /\ sh.run # None
    \/ RouterProcess
    \/ RouterRequest
    \/ WandbSend
    \/ PusherDrain

SpecExit ==
    /\ InitOnline
    /\ [][NextExit]_vars
    /\ WF_vars(RouterProcess \/ RouterRequest)
    /\ WF_vars(WandbSend)
    /\ WF_vars(PusherDrain)

\* The daemon online at work on a Run record and History records sent before
\* a send_exit_sync call, which the caller repeats when it times out, with a
\* metrics watcher that buffers points.
NextDefer ==
    \/ SyncCall /\ caller'.kind = "exit"
    \/ ResponseGet
    \/ ResponseTimeout
    \/ AsyncSend /\ caller.n = 0
    \/ HistorySend /\ caller.n = 0
    \/ TBEvent
    \/ RouterProcess
    \/ RouterRequest
    \/ WandbSend
    \/ PusherDrain

SpecDefer == InitOnline /\ [][NextDefer]_vars

\* The daemon online at work on send_run_sync and send_exit_sync calls that
\* wait for their Result and on one History, Summary, Config or Files record
\* or defer request sent at any time, with and without a resume conflict.
NextRaise ==
    \/ /\ SyncCall
       /\ caller'.kind \in {"run", "exit"}
       /\ caller'.uuid # "" /\ caller'.supplied = NoneInt
    \/ ResponseGet
    \/ HistorySendAny /\ n_async < MaxAsync
    \/ SummarySend /\ n_async < MaxAsync
    \/ ConfigFilesDeferSend
    \/ RouterProcess
    \/ RouterRequest
    \/ WandbSend
    \/ PusherDrain

SpecRaise ==
    /\ InitOf({CheckProcessInterval}, ResumeModes, {PriorRun}, {FALSE})
    /\ [][NextRaise]_vars

\* The daemon online at work on a Run record, chunks of output and, once the
\* run is set up, a send_exit_sync call that waits for its Result.
NextFlush ==
    \/ /\ SyncCall /\ caller.n < MaxSyncAll /\ sh.run # None
       /\ caller'.kind = "exit"
       /\ caller'.uuid # "" /\ caller'.supplied = NoneInt
    \/ ResponseGet
    \/ AsyncSend
    \/ OutputSend
    \/ RouterProcess
    \/ RouterRequest
    \/ WandbSend
    \/ PusherDrain

SpecFlush == InitOnline /\ [][NextFlush]_vars

\* The producers, each between the two puts of a send at any moment, and the
\* router.
NextChannels ==
    \/ PutRecord
    \/ PutTag
    \/ RouterProcess
    \/ RouterRequest

SpecChannels == InitOnline /\ [][NextChannels]_vars

\* The daemon and its parent: the parent check enabled or disabled, the
\* parent may disappear, and time passes. The producer sends fire-and-forget
\* records only. Every thread of the daemon keeps running and time keeps
\* passing.
InitParent ==
    InitOf({0, CheckProcessInterval}, ResumeModes, {PriorRun}, OfflineModes)

Router == RouterProcess \/ RouterRequest \/ RouterIdle \/ RouterShutdown

NextParent ==
    \/ AsyncSend
    \/ RouterProcess
    \/ RouterIdle
    \/ RouterShutdown
    \/ WandbSend
    \/ PusherDrain
    \/ Shutdown
    \/ WandbSendFinish
    \/ WandbSendJoined
    \/ WandbWrite
    \/ WandbWriteFinish
    \/ WandbReadFinish
    \/ Tick
    \/ ParentDies

SpecParent ==
    /\ InitParent
    /\ [][NextParent]_vars
    /\ WF_vars(Router)
    /\ WF_vars(Tick)
    /\ WF_vars(WandbSend)
    /\ WF_vars(WandbSendFinish)
    /\ WF_vars(WandbSendJoined)
    /\ WF_vars(WandbWriteFinish)
    /\ WF_vars(WandbReadFinish)
    /\ WF_vars(PusherDrain)

-----------------------------------------------------------------------------
(* Steps and histories the properties speak about *)

\* This step is wandb_send handing the first record of the send queue to
\* SendManager.send.
Handles(record_type, request_type) ==
    /\ send_queue # << >>
    /\ send_queue' = Tail(send_queue)
    /\ Head(send_queue).record_type = record_type
    /\ Head(send_queue).request_type = request_type

\* This step puts an exit Result on the response queue.
ExitResultPut ==
    /\ Len(resp_put') > Len(resp_put)
    /\ resp_put'[Len(resp_put')].kind = "exit_result"

HasEvent(log, name) == \E i \in 1..Len(log) : log[i][1] = name

\* The place of a teardown action in the order of the defer sequence.
Rank(event) ==
    CASE event[1] = "tb_watcher.finish" -> 1
      [] event[1] = "dir_watcher.finish" -> 2
      [] event[1] = "pusher.finish" -> 3
      [] event[1] = "fs.finish" -> 4
      [] event[1] = "pusher.join" -> 5
      [] event[1] = "exit_result" -> 6

\* The field of a Result that answers a record.
AnswerKind(rec) ==
    IF rec.record_type = "request"
        THEN rec.request_type \o "_response"
        ELSE rec.record_type \o "_result"

\* The Results put so far with uuid u and answer k, and the handled records
\* with req_resp set that such a Result answers.
ResultsPut(u, k) ==
    Cardinality({i \in 1..Len(resp_put) :
                    resp_put[i].uuid = u /\ resp_put[i].kind = k})

RequestsHandled(u, k) ==
    Cardinality({i \in 1..Len(handled) :
                    /\ handled[i].req_resp
                    /\ handled[i].uuid = u
                    /\ AnswerKind(handled[i]) = k})

\* The uuids a record of the model can carry.
Uuids == {""} \cup {ToString(n) : n \in 1..MaxSync}

\* This step is the router taking the tag `tag` from the notify queue.
RouterTakes(tag) ==
    /\ notify_queue # << >>
    /\ Head(notify_queue) = tag
    /\ notify_queue' = Tail(notify_queue)

\* Nothing is left to route or to handle.
Quiescent ==
    /\ notify_queue = << >> /\ process_queue = << >> /\ req_queue = << >>
    /\ send_queue = << >>
    /\ send_thread = "running"

-----------------------------------------------------------------------------
(* Properties *)

\* C1: whenever SendManager handles a defer request while the defer state is
\* before `end`, the state becomes exactly the next state and exactly one new
\* defer request (with its PROCESS tag) is enqueued.
C1_DeferAdvancesByOne ==
    [][ (Handles("request", "defer")
            /\ sh.defer_state \in DeferStates \ {DeferState.end})
        => /\ sh'.defer_state = sh.defer_state + 1
           /\ process_queue' = Append(process_queue, DeferRecord)
           /\ notify_queue' = Append(notify_queue, NOTIFY_PROCESS) ]_vars

\* The defer handler advanced the state from flush_fp to flush_fs and its new
\* defer request is on its way.
C1_Witness ==
    /\ sh.defer_state = DeferState.flush_fs
    /\ HasEvent(teardown, "pusher.finish")
    /\ \E i \in 1..Len(process_queue) : process_queue[i] = DeferRecord

\* C2: the defer state never decreases, whatever record is handled; an Exit
\* record handled at `end` leaves the state at `end` and sends no defer
\* request.
C2_DeferStateNeverDecreases ==
    [][ /\ sh'.defer_state >= sh.defer_state
        /\ (Handles("exit", "") /\ sh.defer_state = DeferState.end)
              => /\ sh'.defer_state = DeferState.end
                 /\ UNCHANGED << process_queue, notify_queue, teardown >> ]_vars

\* C3: for any number of Exit records, the terminal `end` branch of the defer
\* handler is executed at most once.
C3_EndBranchOnce == end_count <= 1

\* C4: the teardown actions of the defer sequence happen in the order metrics
\* watcher, directory watcher, pusher finish, file stream finish, exit result,
\* never one of them after one of a later place, and the file stream is
\* finished with the exit code of a handled Exit record.
C4_TeardownOrder ==
    /\ \A i, j \in 1..Len(teardown) :
          i < j => Rank(teardown[i]) <= Rank(teardown[j])
    /\ \A i \in 1..Len(teardown) :
          teardown[i][1] = "fs.finish"
              => \E k \in 1..Len(handled) :
                    /\ handled[k].record_type = "exit"
                    /\ handled[k].exit_code = teardown[i][2]

C6_ExactlyOneResult ==
    \A u \in Uuids,
       k \in {"run_result", "exit_result", "login_response",
              "get_summary_response", "status_response", "poll_exit_response"} :
        /\ ResultsPut(u, k) <= RequestsHandled(u, k)
        /\ Quiescent => ResultsPut(u, k) = RequestsHandled(u, k)

\* C7: the Result a synchronous call returns carries the uuid of the request
\* that call sent.
C7_ResultMatchesRequest ==
    (outcome.n > 0 /\ outcome.rr # NoResponse) => outcome.rr.uuid = outcome.uuid

\* C8: when the response queue stays empty until the timeout, _request_response
\* returns the no-response value and raises nothing.
C8_TimeoutReturnsNone ==
    [][ (caller.pc = "wait" /\ caller'.pc = "idle" /\ resp_queue = << >>)
        => /\ outcome'.rr = NoResponse
           /\ outcome'.rr_raised = "" ]_vars

\* A synchronous call ended by its timeout.
C8_Witness ==
    /\ outcome.n > 0
    /\ outcome.rr = NoResponse
    /\ outcome.rr_raised = ""
    /\ caller.pc = "idle"

\* C9: the wait of a synchronous call is bounded: by the timeout its caller
\* supplied, and by the default of 5 seconds when the caller supplied none.
C9_WaitBounded ==
    (caller.pc = "wait"
        /\ caller.kind \in {"login", "run", "exit", "get_summary"})
    => caller.timeout = IF caller.supplied = NoneInt
                           THEN DefaultTimeout ELSE caller.supplied

\* C10: a synchronous call that got the no-response value ends with the
\* backend-unreachable wandb.Error and with no other failure.
C10_TimeoutIsBackendError ==
    (outcome.n > 0 /\ outcome.rr = NoResponse
        /\ outcome.kind \in {"login", "run", "exit", "get_summary"})
    => outcome.raised = "wandb.Error"

\* C11: no record whose control.local flag is set, the defer request of the
\* exit and defer handlers in particular, is forwarded to the durability
\* writer.
C11_LocalNeverWritten ==
    \A i \in 1..Len(write_queue) : ~write_queue[i].local

\* C12: for each PROCESS tag the router takes exactly one record from the
\* process queue and forwards it exactly once to the writer and, if and only
\* if the daemon is online, exactly once to the network sender; offline, no
\* record reaches the send queue or a handler of SendManager.
C12_ProcessForwardedOnce ==
    /\ [][ RouterTakes(NOTIFY_PROCESS)
            => /\ process_queue # << >>
               /\ process_queue' = Tail(process_queue)
               /\ write_queue' = Append(write_queue, Head(process_queue))
               /\ send_queue' = IF settings.offline
                                    THEN send_queue
                                    ELSE Append(send_queue, Head(process_queue))
               /\ UNCHANGED req_queue ]_vars
    /\ [](settings.offline => send_queue = << >> /\ handled = << >>)

\* Offline, the router forwarded a fire-and-forget record to the writer only.
C12_Witness ==
    /\ settings.offline
    /\ n_async > 0
    /\ process_queue = << >>
    /\ \E i \in 1..Len(write_queue) : ~write_queue[i].req_resp
    /\ send_queue = << >>

\* C13: every record the router forwarded to the writer before the SHUTDOWN tag
\* is in the durability log when the writer thread has stopped: none is left
\* on the write queue.
C13_WrittenBeforeWriterStops ==
    write_thread = "finished" => write_queue = << >>

\* C14: every record the router forwarded to the network sender before the
\* SHUTDOWN tag was handed to SendManager.send when SendManager.finish runs:
\* none is left on the send queue.
C14_SentBeforeFinish ==
    send_thread \in {"finishing", "finished"} => send_queue = << >>

\* C15: the durability log followed by the write queue is the sequence of the
\* records in the order the router took them from the process and request
\* queues: a step of the router appends the record it took, and no other step
\* changes that sequence; the log itself only grows at its end.
C15_LogInRouterOrder ==
    [][ /\ \/ ds' \o write_queue' = ds \o write_queue
           \/ /\ RouterTakes(NOTIFY_PROCESS)
              /\ ds' \o write_queue' =
                     Append(ds \o write_queue, Head(process_queue))
           \/ /\ RouterTakes(NOTIFY_REQUEST)
              /\ ds' \o write_queue' =
                     Append(ds \o write_queue, Head(req_queue))
        /\ \/ ds' = ds
           \/ Len(ds') = Len(ds) + 1 /\ SubSeq(ds', 1, Len(ds)) = ds ]_vars

\* The log holds a record the router took second, written while an earlier
\* one was in the log and a later one was waiting.
C15_Witness ==
    /\ Len(ds) >= 2
    /\ write_queue # << >>
    /\ ds[1] # ds[2]

\* The daemon process has ended: by os._exit, or by the return of
\* wandb_internal after the router loop ended and the threads were joined.
DaemonTerminated ==
    \/ exited
    \/ /\ router_done
       /\ send_thread \in {None, "finished", "crashed"}
       /\ write_thread = "finished"
       /\ read_thread \in {None, "finished"}

\* C16: if the parent process no longer exists and the parent check is
\* enabled, the daemon process eventually terminates, whether the notify
\* queue holds notifications or stays empty.
C16_OrphanTerminates ==
    (~parent_exists /\ settings.internal_check_process > 0) ~> DaemonTerminated

\* The parent check found the parent gone, on an empty notify queue, and the
\* daemon exited.
C16_Witness ==
    /\ exited
    /\ ~parent_exists
    /\ notify_queue = << >>
    /\ ~router_done

\* C17: when SendManager.send is handed a Record with no variant or of a
\* variant with no handler, or a Request with no nested variant or of one with
\* no handler, no exception ends the send thread, nothing is put on the
\* response queue, and no field of SendManager changes; nothing else is sent
\* or torn down either.
C17_UnknownVariantDropped ==
    [][ (send_queue # << >> /\ send_queue' = Tail(send_queue)
            /\ Head(send_queue) \in ForeignRecords)
        => /\ send_thread' = send_thread
           /\ resp_queue' = resp_queue
           /\ resp_put' = resp_put
           /\ sh' = sh
           /\ UNCHANGED << process_queue, notify_queue, teardown, end_count,
                           remote_runs >> ]_vars

\* SendManager, with a run started or an exit under way, was handed a record
\* it has no handler for, and the send thread runs on.
C17_Witness ==
    /\ handled # << >>
    /\ handled[Len(handled)] \in ForeignRecords
    /\ sh # SendManagerInit
    /\ send_thread = "running"

\* The first Run record is in conflict with the resume setting.
ResumeConflict(run_id) ==
    \/ settings.resume = "must" /\ run_id \notin remote_runs
    \/ settings.resume = "never" /\ run_id \in remote_runs

\* C18: when the first Run record meets resume=must with no prior run on the
\* remote service, or resume=never with a prior run, upsert_run is not called
\* and no run is kept; when the record wants a response, the one Result put
\* is a run_result with the error INVALID.
C18_ResumeConflictInvalid ==
    [][ (Handles("run", "") /\ sh.run = None
            /\ ResumeConflict(Head(send_queue).run_id))
        => /\ sh'.upserts = sh.upserts
           /\ sh'.run = None
           /\ remote_runs' = remote_runs
           /\ resp_put' =
                 IF Head(send_queue).req_resp
                    THEN Append(resp_put,
                                [Result(Head(send_queue).uuid, "run_result")
                                    EXCEPT !.error = "INVALID"])
                    ELSE resp_put ]_vars

\* With resume=must and no prior run, a synchronous Run was answered with the
\* error INVALID, and nothing was upserted.
C18_Witness ==
    /\ settings.resume = "must"
    /\ ~resume_status.exists
    /\ sh.upserts = 0
    /\ \E i \in 1..Len(resp_put) :
          resp_put[i].kind = "run_result" /\ resp_put[i].error = "INVALID"

\* The _runtime of the last row of a tail, 0 without a row.
LastRuntime(tail) == IF tail = << >> THEN 0 ELSE Last(tail).runtime

\* C19: with resume allow or auto and a prior run, once the run is started the
\* history, events and output files start at the remote historyLineCount,
\* eventsLineCount and logLineCount, the starting step is the _step of the
\* last history row plus one, and the runtime offset is the greater of the
\* _runtime of the last history row and of the last events row.
C19_ResumeOffsets ==
    (sh.run # None /\ settings.resume \in {"allow", "auto"}
        /\ resume_status.exists)
    => /\ sh.fs_policy = [history |-> resume_status.historyLineCount,
                          events |-> resume_status.eventsLineCount,
                          output |-> resume_status.logLineCount]
       /\ resume_status.historyTail # << >>
             => sh.starting_step = Last(resume_status.historyTail).step + 1
       /\ sh.offsets.runtime =
             Max(LastRuntime(resume_status.historyTail),
                 LastRuntime(resume_status.eventsTail))

C21_StartedOnce ==
    /\ [](sh.starts <= 1)
    /\ [][ ( \/ sh'.starts # sh.starts
             \/ sh'.fs /\ ~sh.fs
             \/ sh'.pusher = "running" /\ sh.pusher # "running"
             \/ sh'.dir_watcher /\ ~sh.dir_watcher
             \/ sh'.tb_watcher /\ ~sh.tb_watcher )
           => /\ Handles("run", "")
              /\ sh.run = None
              /\ sh'.run # None ]_vars

\* A second Run record was accepted after the defer sequence had torn the
\* components down, and they were not started again.
C21_Witness ==
    /\ sh.starts = 1
    /\ sh.upserts >= 2
    /\ sh.defer_state = DeferState.end
    /\ ~sh.fs /\ ~sh.dir_watcher /\ ~sh.tb_watcher
    /\ handled[Len(handled)].record_type = "run"

\* C22: once SendManager holds a run, handling any record, a later Run record
\* of whatever run id in particular, leaves the held run id as it is.
C22_RunIdImmutable ==
    [][ sh.run # None => sh'.run = sh.run ]_vars

\* The value the items give the key k: the value of the last item of k.
RECURSIVE LastValue(_, _)
LastValue(items, k) ==
    IF items = << >> THEN Absent
    ELSE IF Last(items)[1] = k THEN Last(items)[2]
    ELSE LastValue(SubSeq(items, 1, Len(items) - 1), k)

InSeq(x, seq) == \E i \in 1..Len(seq) : seq[i] = x

\* C23: handling a History record leaves every key of the record at the
\* record's value and every other key of the consolidated summary as it was,
\* so that each key holds the value of the latest History record with that
\* key; the same with and without a file stream.
C23_HistoryLastWriteWins ==
    [][ Handles("history", "")
        => \A k \in SummaryKeys :
              sh'.summary[k] =
                 IF LastValue(Head(send_queue).items, k) # Absent
                    THEN LastValue(Head(send_queue).items, k)
                    ELSE sh.summary[k] ]_vars

\* With a file stream, a later History record overwrote the value of key a
\* and added key b.
C23_Witness ==
    /\ sh.fs
    /\ Len(handled) >= 3
    /\ handled[Len(handled) - 1].items = << <<"a", 1>> >>
    /\ handled[Len(handled)].items = << <<"a", 2>>, <<"b", 1>> >>
    /\ handled[Len(handled)].record_type = "history"
    /\ sh.summary = [a |-> 2, b |-> 1]

Chunk == Head(send_queue)

OtherStream(stream) == IF stream = "stdout" THEN "stderr" ELSE "stdout"

\* C26: with a file stream, a chunk that ends in a line terminator adds
\* exactly one push, whose text is what its stream buffered since the
\* previous push of that stream followed by the chunk, and empties that
\* buffer; a chunk that does not adds no push and is appended to the buffer
\* of its stream; the buffer of the other stream is never read or changed.
C26_OutputLines ==
    [][ (Handles("output", "") /\ sh.fs)
        => /\ sh'.partial_output[OtherStream(Chunk.stream)] =
                 sh.partial_output[OtherStream(Chunk.stream)]
           /\ IF endswith_newline(Chunk.line)
                 THEN /\ Len(sh'.fs_output) = Len(sh.fs_output) + 1
                      /\ SubSeq(sh'.fs_output, 1, Len(sh.fs_output))
                            = sh.fs_output
                      /\ Last(sh'.fs_output).text =
                            sh.partial_output[Chunk.stream] \o Chunk.line
                      /\ Last(sh'.fs_output).prepend =
                            (IF Chunk.stream = "stderr" THEN "ERROR " ELSE "")
                      /\ sh'.partial_output[Chunk.stream] = << >>
                 ELSE /\ sh'.fs_output = sh.fs_output
                      /\ sh'.partial_output[Chunk.stream] =
                            sh.partial_output[Chunk.stream] \o Chunk.line ]_vars

\* stdout "hello", then a chunk of stderr, then stdout " world\n": one push,
\* the line "hello world", and the chunk of stderr still buffered.
C26_Witness ==
    /\ sh.fs
    /\ sh.fs_output = << [prepend |-> "", text |-> <<"hello", " world", "\n">>] >>
    /\ sh.partial_output.stderr = <<"hello">>
    /\ sh.partial_output.stdout = << >>

\* C27: a poll_exit response with done set is put only when the pusher is not
\* alive and the defer state is `end`, that is, when the defer sequence of
\* the latest Exit record has produced its exit result.
C27_DoneOnlyAtEnd ==
    [][ ( /\ Handles("request", "poll_exit")
          /\ Len(resp_put') > Len(resp_put)
          /\ Last(resp_put').done )
        => /\ sh.defer_state = DeferState.end
           /\ sh.pusher # None => ~pusher_alive(sh.pusher) ]_vars

\* C28: a builder of records that has returned raised exactly when it was
\* given no payload or more than one; with one payload the record carries
\* that payload.
C28_OnePayload ==
    (call.fn \in {"_make_record", "_make_request"} /\ call.pc = "done")
    => /\ call.raised # "" <=> Cardinality(call.payloads) # 1
       /\ call.raised = "" /\ call.fn = "_make_record"
             => call.payloads = {call.variant}

\* C29: the contents of a manifest that was built hold the entries of the
\* manifest, each once, in ascending order of path.
C29_ManifestSorted ==
    (call.fn = "_make_artifact_manifest" /\ call.pc = "done"
        /\ call.raised = "")
    => /\ Len(call.contents) = Len(call.entries)
       /\ Range(call.contents) = Range(call.entries)
       /\ \A i \in 1..(Len(call.contents) - 1) :
             PathIndex(call.contents[i]) < PathIndex(call.contents[i + 1])

\* A manifest of three entries inserted in descending order of path was built.
C29_Witness ==
    /\ call.fn = "_make_artifact_manifest" /\ call.pc = "done"
    /\ call.entries = << "c.txt", "b.txt", "a.txt" >>
    /\ call.contents = << "a.txt", "b.txt", "c.txt" >>

\* C30: once an Exit record was handled, the defer state reaches `end` and
\* the exit result is there.
C30_ExitReachesEnd ==
    (sh.defer_state \in DeferStates)
        ~> (sh.defer_state = DeferState.end /\ sh.exit_result)

\* The History records waiting for the send thread, on the process queue or
\* the send queue, with the given items.
PendingHistory(items) ==
    { i \in 1..Len(process_queue \o send_queue) :
         /\ (process_queue \o send_queue)[i].record_type = "history"
         /\ (process_queue \o send_queue)[i].items = items }

\* C31: when the teardown action of a defer phase runs, no record that the
\* teardown action of the phase before put on the process queue and no record
\* the producer sent before its Exit is still waiting to be handled; the send
\* thread takes one record per step, the head of the send queue.
C31_HandledBeforeNextPhase ==
    [][ /\ (Handles("request", "defer") /\ sh.defer_state \in DeferStates)
           => /\ PendingHistory(HistoryRow) = {}
              /\ sh.defer_state # DeferState.flush_tb
                    => PendingHistory(TBHistory.items) = {}
        /\ handled' # handled
           => /\ handled' = Append(handled, Head(send_queue))
              /\ send_queue' = Tail(send_queue) ]_vars

\* The metrics watcher's two points were flushed in flush_tb and handled, a
\* History record of the producer before them, and the sequence went on to
\* the end.
C31_Witness ==
    /\ sh.defer_state = DeferState.end
    /\ sh.exit_result
    /\ \E i, j, k \in 1..Len(handled) :
          /\ i < j /\ j < k
          /\ handled[i].record_type = "history"
          /\ handled[i].items = HistoryRow
          /\ handled[j].items = TBHistory.items
          /\ handled[k].items = TBHistory.items
    /\ sh.fs_summary = << [a |-> 1, b |-> 1] >>

\* C32: handling a poll_exit request that wants a response does not raise and
\* puts exactly one Result, a poll_exit_response with the uuid of the request.
C32_PollExitAnswered ==
    [][ (Handles("request", "poll_exit") /\ Head(send_queue).req_resp)
        => /\ send_thread' = send_thread
           /\ Len(resp_put') = Len(resp_put) + 1
           /\ Last(resp_put').kind = "poll_exit_response"
           /\ Last(resp_put').uuid = Head(send_queue).uuid ]_vars

\* C33: once the router has taken the SHUTDOWN tag its loop has ended and the
\* stop flag is set, and the read, the send and the write thread end, so that
\* the joins of wandb_internal return.
C33_ShutdownTerminates ==
    /\ [](router_done => stopped)
    /\ router_done ~> ( /\ read_thread \in {None, "finished"}
                        /\ send_thread \in {None, "finished", "crashed"}
                        /\ write_thread = "finished" )

\* The daemon was shut down online with a run whose pusher had to drain, and
\* all its threads have ended.
C33_Witness ==
    /\ router_done /\ stopped
    /\ read_thread = "finished" /\ send_thread = "finished"
    /\ write_thread = "finished"
    /\ sh.pusher = "done"
    /\ ~exited

\* C34: handling a History, Summary, Config or Files record or a defer
\* request does not raise: the send thread is as it was.
C34_HandlersNeverRaise ==
    [][ ( \/ Handles("history", "") \/ Handles("summary", "")
          \/ Handles("config", "") \/ Handles("files", "")
          \/ Handles("request", "defer") )
        => send_thread' = send_thread ]_vars

\* The defer requests waiting on the process queue or the send queue.
PendingDefers ==
    { i \in 1..Len(process_queue \o send_queue) :
         (process_queue \o send_queue)[i] = DeferRecord }

\* C35: at most one defer request is waiting, on the process queue or the
\* send queue, in every state.
C35_OneDeferPending == Cardinality(PendingDefers) <= 1

\* C36: a Summary record with a remove that finds its key absent leaves the
\* consolidated summary as it was before the record.
C36_RejectedSummaryUnchanged ==
    [][ ( /\ Handles("summary", "")
          /\ RemoveKeys(UpdateDict(sh.summary, Head(send_queue).items),
                        Head(send_queue).remove).raised )
        => sh'.summary = sh.summary ]_vars

\* C37: a first Run record in conflict with the resume setting changes
\* nothing of SendManager: no run is held, nothing is started, no file is
\* written, and the next Run record is the first again.
C37_RejectedRunNoEffect ==
    [][ (Handles("run", "") /\ sh.run = None
            /\ ResumeConflict(Head(send_queue).run_id))
        => sh' = sh ]_vars

\* C38: with resume must, allow or auto and a prior run on the remote
\* service, once the run is started the history, events and output files
\* start at the remote line counts.
C38_ResumeStartsAtLineCounts ==
    (sh.run # None /\ settings.resume \in {"must", "allow", "auto"}
        /\ resume_status.exists)
    => sh.fs_policy = [history |-> resume_status.historyLineCount,
                       events |-> resume_status.eventsLineCount,
                       output |-> resume_status.logLineCount]

\* C39: when the file stream is finished in the flush_fs phase, no text of an
\* Output record is left in a buffer: all of it was pushed to the output file.
C39_OutputFlushedAtExit ==
    [][ (Handles("request", "defer") /\ sh.fs /\ ~sh'.fs)
        => sh.partial_output = NoOutput ]_vars

\* How many times a tag is on the notify queue.
TagCount(tag) ==
    Cardinality({ i \in DOMAIN notify_queue : notify_queue[i] = tag })

\* C40: the PROCESS tags on the notify queue are never more than the records
\* on the process queue, and the REQUEST tags never more than the records on
\* the request queue; so the router finds a record after every tag it takes.
C40_TagsWithinRecords ==
    /\ TagCount(NOTIFY_PROCESS) <= Len(process_queue)
    /\ TagCount(NOTIFY_REQUEST) <= Len(req_queue)
    /\ (notify_queue # << >> /\ Head(notify_queue) = NOTIFY_PROCESS)
           => process_queue # << >>
    /\ (notify_queue # << >> /\ Head(notify_queue) = NOTIFY_REQUEST)
           => req_queue # << >>

\* Two producers have each put a record and not yet its tag, one of them on
\* the request queue, while tags of both kinds are pending and the router
\* has already forwarded a record.
C40_Witness ==
    /\ \E p, q \in Producers :
          /\ p # q
          /\ putting[p].left = "tag" /\ putting[p].channel = "request"
          /\ putting[q].left = "tag" /\ putting[q].channel = "process"
    /\ TagCount(NOTIFY_PROCESS) >= 1
    /\ TagCount(NOTIFY_REQUEST) >= 1
    /\ send_queue # << >>

====
